---- MODULE Spec2Model ----
(***************************************************************************)
(* Model of app.py, the Streamlit invoice model merger: one script run     *)
(* per uploaded file.  A run reads the sheet, detects the MODEL / QTY /    *)
(* PRICE / AMOUNT columns by keyword, cleans the MODEL column (strip,      *)
(* replace blank markers, forward-fill), coerces the numeric columns,      *)
(* groups by MODEL, adds the helper columns, filters, sorts, renders the   *)
(* metrics and writes the Excel sheet.                                     *)
(*                                                                         *)
(* Strings are sequences of one-character strings, so that upper(),        *)
(* strip(), substring tests and string ordering are computed, not assumed. *)
(* Numbers are integers.  A cell is a record [t, s, n]: text (t = "str"),  *)
(* number (t = "num") or the missing marker NaN / pd.NA (t = "nan").       *)
(***************************************************************************)
EXTENDS Integers, Sequences, FiniteSets, TLC

\* Largest number of data rows of an uploaded sheet.
MaxRows == 3
\* Largest number of columns of a header handed to the column detection alone.
MaxCols == 3

(***************************************************************************)
(* Characters and strings                                                  *)
(***************************************************************************)

\* The characters the model's strings are made of, in code point order.
CodePoints ==
    << " ", ".",
       "0", "1", "2", "3", "4", "5", "6", "7", "8", "9",
       "A", "B", "C", "D", "E", "F", "G", "H", "I", "J", "K", "L", "M",
       "N", "O", "P", "Q", "R", "S", "T", "U", "V", "W", "X", "Y", "Z",
       "_",
       "a", "b", "c", "d", "e", "f", "g", "h", "i", "j", "k", "l", "m",
       "n", "o", "p", "q", "r", "s", "t", "u", "v", "w", "x", "y", "z" >>

Ord(c) == CHOOSE i \in 1..Len(CodePoints) : CodePoints[i] = c

LowerCase ==
    << "a", "b", "c", "d", "e", "f", "g", "h", "i", "j", "k", "l", "m",
       "n", "o", "p", "q", "r", "s", "t", "u", "v", "w", "x", "y", "z" >>

UpperCase ==
    << "A", "B", "C", "D", "E", "F", "G", "H", "I", "J", "K", "L", "M",
       "N", "O", "P", "Q", "R", "S", "T", "U", "V", "W", "X", "Y", "Z" >>

Digits == << "0", "1", "2", "3", "4", "5", "6", "7", "8", "9" >>

\* str.upper() on one character.
UpperChar(c) ==
    IF \E i \in 1..Len(LowerCase) : LowerCase[i] = c
    THEN UpperCase[CHOOSE i \in 1..Len(LowerCase) : LowerCase[i] = c]
    ELSE c

\* str.upper()
Upper(s) == [i \in 1..Len(s) |-> UpperChar(s[i])]

\* Python's  needle in hay  on strings.
Contains(hay, needle) ==
    \E o \in 0..(Len(hay) - Len(needle)) :
        \A i \in 1..Len(needle) : hay[o + i] = needle[i]

\* str.strip(): leading and trailing whitespace removed.
Strip(s) ==
    LET keep == {i \in 1..Len(s) : s[i] # " "}
    IN  IF keep = {} THEN << >>
        ELSE LET lo == CHOOSE i \in keep : \A j \in keep : i <= j
                 hi == CHOOSE i \in keep : \A j \in keep : j <= i
             IN  SubSeq(s, lo, hi)

\* s < t in Python's string order (by code point, a proper prefix first).
StrLess(s, t) ==
    \E k \in 1..(Len(t)) :
        /\ \A i \in 1..(k - 1) : i <= Len(s) /\ s[i] = t[i]
        /\ \/ k = Len(s) + 1
           \/ k <= Len(s) /\ Ord(s[k]) < Ord(t[k])

(***************************************************************************)
(* Cells and tables                                                        *)
(***************************************************************************)

Str(s) == [t |-> "str", s |-> s, n |-> 0]
Num(n) == [t |-> "num", s |-> << >>, n |-> n]
NaN == [t |-> "nan", s |-> << >>, n |-> 0]

\* A DataFrame: its column names and its rows, each row a tuple of cells.
DataFrame(cols, rows) == [cols |-> cols, rows |-> rows]

\* A table that was never built.
NoDF == DataFrame(<< >>, << >>)

\* The position of column `name` in `d` (column names of a sheet are distinct).
ColIdx(d, name) == CHOOSE j \in 1..Len(d.cols) : d.cols[j] = name

\* d[name]: the cells of column `name`, in row order.
Column(d, name) == [i \in 1..Len(d.rows) |-> d.rows[i][ColIdx(d, name)]]

\* d[name] = values
SetColumn(d, name, values) ==
    DataFrame(d.cols,
              [i \in 1..Len(d.rows) |->
                  [d.rows[i] EXCEPT ![ColIdx(d, name)] = values[i]]])

\* d[name] = values, for a column the table does not have yet (appended).
AddColumn(d, name, values) ==
    DataFrame(Append(d.cols, name),
              [i \in 1..Len(d.rows) |-> Append(d.rows[i], values[i])])

\* detect_column's None.  A detected column contains a keyword, so its name
\* is never the empty string, and  not model_col  is true of None only.
None == << >>

(***************************************************************************)
(* detect_column                                                           *)
(***************************************************************************)

MODEL_KEYWORDS ==
    << << "M", "O", "D", "E", "L" >>, << "S", "T", "Y", "L", "E" >>,
       << "I", "T", "E", "M" >>, << "C", "O", "D", "E" >> >>

QTY_KEYWORDS ==
    << << "Q", "T", "Y" >>, << "Q", "U", "A", "N", "T", "I", "T", "Y" >>,
       << "P", "C", "S" >> >>

PRICE_KEYWORDS ==
    << << "P", "R", "I", "C", "E" >>, << "U", ".", "P", "R", "I", "C", "E" >>,
       << "U", "N", "I", "T" >> >>

AMOUNT_KEYWORDS ==
    << << "A", "M", "O", "U", "N", "T" >>, << "T", "O", "T", "A", "L" >>,
       << "V", "A", "L", "U", "E" >> >>

RECURSIVE FirstColumnWith(_, _, _)
\* The inner loop: the first column, from position j on, whose upper-cased
\* name contains key_up; None when there is none.
FirstColumnWith(df_cols, key_up, j) ==
    IF j > Len(df_cols) THEN None
    ELSE IF Contains(Upper(df_cols[j]), key_up) THEN df_cols[j]
    ELSE FirstColumnWith(df_cols, key_up, j + 1)

RECURSIVE DetectFrom(_, _, _)
\* The outer loop: the keywords from position k on, in order.
DetectFrom(df_cols, keywords, k) ==
    IF k > Len(keywords) THEN None
    ELSE LET col == FirstColumnWith(df_cols, Upper(keywords[k]), 1)
         IN  IF col # None THEN col ELSE DetectFrom(df_cols, keywords, k + 1)

\* A faulty variant: columns in the outer loop, keywords in the inner one.
RECURSIVE DetectColumnFirst(_, _, _)
DetectColumnFirst(df_cols, keywords, j) ==
    IF j > Len(df_cols) THEN None
    ELSE IF \E k \in 1..Len(keywords) :
                Contains(Upper(df_cols[j]), Upper(keywords[k]))
    THEN df_cols[j]
    ELSE DetectColumnFirst(df_cols, keywords, j + 1)

detect_column_by_position(df_cols, keywords) ==
    DetectColumnFirst(df_cols, keywords, 1)

detect_column(df_cols, keywords) == DetectFrom(df_cols, keywords, 1)

(***************************************************************************)
(* The uploaded sheets                                                     *)
(***************************************************************************)

\* Column names of the sheets.
ColModel == << "M", "o", "d", "e", "l" >>
ColQty == << "Q", "t", "y" >>
ColPrice == << "P", "r", "i", "c", "e" >>
ColAmount == << "A", "m", "o", "u", "n", "t" >>
ColDesc == << "D", "e", "s", "c" >>
ColStyleCode == << "S", "t", "y", "l", "e", " ", "C", "o", "d", "e" >>
ColTotal == << "T", "o", "t", "a", "l" >>
ColQtyUnits == << "Q", "t", "y", " ", "U", "n", "i", "t", "s" >>
ColItemQty == << "I", "t", "e", "m", " ", "Q", "t", "y" >>
ColUnitPrice == << "U", "n", "i", "t", " ", "P", "r", "i", "c", "e" >>
ColTotalQty == << "T", "o", "t", "a", "l", " ", "Q", "t", "y" >>

\* The helper columns of the display table.
ColTotalQTY == << "T", "o", "t", "a", "l", "_", "Q", "T", "Y" >>
ColTotalAmount == << "T", "o", "t", "a", "l", "_", "A", "m", "o", "u", "n", "t" >>

\* The sheet layouts: each column's name and the kind of data it holds.  In
\* every layout the MODEL column carries no other role.  In the last one the
\* quantity column's name also contains the price keyword UNIT.
Layouts ==
    { << [name |-> ColModel, kind |-> "id"], [name |-> ColQty, kind |-> "qty"],
         [name |-> ColPrice, kind |-> "price"],
         [name |-> ColAmount, kind |-> "amount"],
         [name |-> ColDesc, kind |-> "desc"] >>,
      << [name |-> ColDesc, kind |-> "desc"],
         [name |-> ColStyleCode, kind |-> "id"],
         [name |-> ColTotal, kind |-> "amount"] >>,
      << [name |-> ColDesc, kind |-> "desc"], [name |-> ColQty, kind |-> "qty"],
         [name |-> ColPrice, kind |-> "price"] >>,
      << [name |-> ColModel, kind |-> "id"],
         [name |-> ColQtyUnits, kind |-> "qty"],
         [name |-> ColAmount, kind |-> "amount"] >> }

\* The invoice lines a sheet is made of.  Identifier cells are text or empty;
\* numeric cells are non-negative integers, integer text, other text or empty.
RowPool ==
    { [id |-> Str(<< "M", "1" >>), qty |-> Num(5), price |-> Num(20),
       amount |-> Num(100), desc |-> Str(<< "x" >>)],
      [id |-> NaN, qty |-> Num(3), price |-> Num(20),
       amount |-> Num(60), desc |-> NaN],
      [id |-> Str(<< "M", "2" >>), qty |-> Num(2), price |-> Num(25),
       amount |-> Num(40), desc |-> Str(<< "y" >>)],
      [id |-> Str(<< " ", "M", "1", " " >>), qty |-> Str(<< "a", "b", "c" >>), price |-> NaN,
       amount |-> Str(<< " ", "1", "2", " " >>), desc |-> NaN],
      [id |-> Str(<< "m", "1" >>), qty |-> Num(5), price |-> Num(30),
       amount |-> Num(40), desc |-> Str(<< "y" >>)],
      [id |-> Str(<< "n", "o", "n", "e" >>), qty |-> Num(2), price |-> Num(20),
       amount |-> Num(60), desc |-> Str(<< "x" >>)],
      [id |-> Str(<< " ", "N", "o", "n", "e" >>), qty |-> NaN, price |-> Num(25),
       amount |-> Num(100), desc |-> Str(<< "y" >>)] }

RowSeqs == UNION {[1..n -> RowPool] : n \in 0..MaxRows}

\* The sheet with the columns of `layout` and the lines `lines`.
Sheet(layout, lines) ==
    [ok |-> TRUE,
     cols |-> [j \in 1..Len(layout) |-> layout[j].name],
     rows |-> [i \in 1..Len(lines) |->
                 [j \in 1..Len(layout) |->
                     CASE layout[j].kind = "id" -> lines[i].id
                       [] layout[j].kind = "qty" -> lines[i].qty
                       [] layout[j].kind = "price" -> lines[i].price
                       [] layout[j].kind = "amount" -> lines[i].amount
                       [] OTHER -> lines[i].desc]]]

\* An upload pd.read_excel cannot read.
CorruptFile == [ok |-> FALSE, cols |-> << >>, rows |-> << >>]

Files == {CorruptFile} \cup {Sheet(l, ls) : l \in Layouts, ls \in RowSeqs}

\* The headers handed to the column detection alone.
NamePool ==
    { ColModel, ColQty, ColPrice, ColAmount, ColDesc, ColStyleCode, ColTotal,
      ColQtyUnits, ColItemQty, ColUnitPrice, ColTotalQty }

Headers == UNION {[1..n -> NamePool] : n \in 0..MaxCols}

\* The sidebar's inputs.
MinQtyChoices == {0, 10}

SearchChoices == { << >>, << "m", "1" >>, << "." >> }

(***************************************************************************)
(* State                                                                   *)
(***************************************************************************)

VARIABLES
    pc,             \* the block of the script the run is at
    uploaded_file,  \* what st.file_uploader returned
    df,             \* the sheet as read
    err,            \* the st.error shown, "" when none
    model_col, qty_col, price_col, amount_col,
    min_qty, search_model, sort_by,
    working_df, grouped, display_df,
    metrics,        \* the st.metric values
    excel           \* the workbook written for download

vars ==
    << pc, uploaded_file, df, err, model_col, qty_col, price_col, amount_col,
       min_qty, search_model, sort_by, working_df, grouped, display_df,
       metrics, excel >>

NoMetrics == [models |-> << >>, quantity |-> << >>, amount |-> << >>]

NoExcel == [sheet |-> "", table |-> NoDF]

Init ==
    /\ pc = "upload"
    /\ uploaded_file = CorruptFile
    /\ df = NoDF
    /\ err = ""
    /\ model_col = None /\ qty_col = None
    /\ price_col = None /\ amount_col = None
    /\ min_qty = 0 /\ search_model = << >> /\ sort_by = "MODEL"
    /\ working_df = NoDF /\ grouped = NoDF /\ display_df = NoDF
    /\ metrics = NoMetrics
    /\ excel = NoExcel

\* st.file_uploader hands the script a file.
Upload ==
    /\ pc = "upload"
    /\ \E f \in Files : uploaded_file' = f
    /\ pc' = "read"
    /\ UNCHANGED << df, err, model_col, qty_col, price_col, amount_col,
                    min_qty, search_model, sort_by, working_df, grouped,
                    display_df, metrics, excel >>

\* 1) Read Excel: the sheet, or st.error and st.stop.
ReadExcel ==
    /\ pc = "read"
    /\ IF uploaded_file.ok
       THEN /\ df' = DataFrame(uploaded_file.cols, uploaded_file.rows)
            /\ pc' = "classify"
            /\ err' = err
       ELSE /\ err' = "File error"
            /\ pc' = "stopped"
            /\ df' = df
    /\ UNCHANGED << uploaded_file, model_col, qty_col, price_col, amount_col,
                    min_qty, search_model, sort_by, working_df, grouped,
                    display_df, metrics, excel >>

\* A faulty variant: the missing MODEL column is reported and the run goes on.
AutoDetectNoStop ==
    /\ pc = "classify"
    /\ model_col' = detect_column(df.cols, MODEL_KEYWORDS)
    /\ qty_col' = detect_column(df.cols, QTY_KEYWORDS)
    /\ price_col' = detect_column(df.cols, PRICE_KEYWORDS)
    /\ amount_col' = detect_column(df.cols, AMOUNT_KEYWORDS)
    /\ err' = IF model_col' = None THEN "MODEL column missing" ELSE err
    /\ pc' = "sidebar"
    /\ UNCHANGED << uploaded_file, df, min_qty, search_model, sort_by,
                    working_df, grouped, display_df, metrics, excel >>

\* 2), 3) Auto-detect the important columns; without a MODEL column st.error
\* and st.stop.
AutoDetect ==
    /\ pc = "classify"
    /\ model_col' = detect_column(df.cols, MODEL_KEYWORDS)
    /\ qty_col' = detect_column(df.cols, QTY_KEYWORDS)
    /\ price_col' = detect_column(df.cols, PRICE_KEYWORDS)
    /\ amount_col' = detect_column(df.cols, AMOUNT_KEYWORDS)
    /\ IF model_col' = None
       THEN err' = "MODEL column missing" /\ pc' = "stopped"
       ELSE err' = err /\ pc' = "sidebar"
    /\ UNCHANGED << uploaded_file, df, min_qty, search_model, sort_by,
                    working_df, grouped, display_df, metrics, excel >>

\* The options the "Sort by" select box offers.
sort_by_options(qty, amount) ==
    {"MODEL"} \cup (IF qty # None THEN {"Total_QTY"} ELSE {})
              \cup (IF amount # None THEN {"Total_Amount"} ELSE {})

\* The sidebar: the filters and the sort key as the user set them.
Sidebar ==
    /\ pc = "sidebar"
    /\ min_qty' \in MinQtyChoices
    /\ search_model' \in SearchChoices
    /\ sort_by' \in sort_by_options(qty_col, amount_col)
    /\ pc' = "clean"
    /\ UNCHANGED << uploaded_file, df, err, model_col, qty_col, price_col,
                    amount_col, working_df, grouped, display_df, metrics,
                    excel >>

(***************************************************************************)
(* 4) Clean data                                                           *)
(***************************************************************************)

\* Series.astype(str) on one cell of a column of text and empty cells.
AsStr(cell) == IF cell.t = "nan" THEN << "n", "a", "n" >> ELSE cell.s

\* The values .replace(..., pd.NA) takes for missing.
MissingMarkers ==
    { << >>, << "n", "a", "n" >>, << "N", "a", "N" >>, << "N", "O", "N", "E" >>,
      << "N", "o", "n", "e" >> }

\* .replace(["", "nan", "NaN", "NONE", "None"], pd.NA) on one stripped string.
ReplaceMissing(s) == IF s \in MissingMarkers THEN NaN ELSE Str(s)

RECURSIVE BFillAt(_, _)
\* A faulty variant: the nearest following value instead of the preceding one.
BFillAt(col, i) ==
    IF col[i].t # "nan" THEN col[i]
    ELSE IF i = Len(col) THEN NaN
    ELSE BFillAt(col, i + 1)

RECURSIVE FFillAt(_, _)
\* fillna(method="ffill") at row i: the last value seen at or before row i.
FFillAt(col, i) ==
    IF col[i].t # "nan" THEN col[i]
    ELSE IF i = 1 THEN NaN
    ELSE FFillAt(col, i - 1)

\* Clean MODEL column: astype(str).str.strip(), replace, forward-fill.
CleanModel(col) ==
    LET stripped == [i \in 1..Len(col) |-> Strip(AsStr(col[i]))]
        replaced == [i \in 1..Len(col) |-> ReplaceMissing(stripped[i])]
    IN  [i \in 1..Len(col) |-> FFillAt(replaced, i)]

\* The digit a character stands for.
DigitValue(c) == (CHOOSE i \in 1..Len(Digits) : Digits[i] = c) - 1

IsDigit(c) == \E i \in 1..Len(Digits) : Digits[i] = c

RECURSIVE DigitsValue(_, _)
\* The number the first k characters of a digit string spell.
DigitsValue(s, k) ==
    IF k = 0 THEN 0 ELSE 10 * DigitsValue(s, k - 1) + DigitValue(s[k])

\* pd.to_numeric(errors="coerce") on one cell: a number stays, an empty cell
\* stays NaN, text is read as a number (surrounding blanks dropped) or NaN.
ToNumeric(cell) ==
    IF cell.t # "str" THEN cell
    ELSE LET s == Strip(cell.s)
         IN  IF Len(s) > 0 /\ \A i \in 1..Len(s) : IsDigit(s[i])
             THEN Num(DigitsValue(s, Len(s)))
             ELSE NaN

\* .fillna(0) on one cell.
FillNa0(cell) == IF cell.t = "nan" THEN Num(0) ELSE cell

\* d[c] = pd.to_numeric(d[c], errors="coerce").fillna(0), when the role has
\* a column.
CoerceColumn(d, c) ==
    IF c = None THEN d
    ELSE SetColumn(d, c, [i \in 1..Len(d.rows) |->
                             FillNa0(ToNumeric(Column(d, c)[i]))])

CleanData(d, mc, qc, pcol, ac) ==
    LET cleaned == SetColumn(d, mc, CleanModel(Column(d, mc)))
    IN  CoerceColumn(CoerceColumn(CoerceColumn(cleaned, qc), pcol), ac)

Clean ==
    /\ pc = "clean"
    /\ working_df' = CleanData(df, model_col, qty_col, price_col, amount_col)
    /\ pc' = "group"
    /\ UNCHANGED << uploaded_file, df, err, model_col, qty_col, price_col,
                    amount_col, min_qty, search_model, sort_by, grouped,
                    display_df, metrics, excel >>

(***************************************************************************)
(* 5) Groupby MODEL                                                        *)
(***************************************************************************)

\* agg_dict[col] = how: a key already in the dict keeps its place and takes
\* the new value.
DictSet(d, col, how) ==
    IF \E i \in 1..Len(d) : d[i].col = col
    THEN [i \in 1..Len(d) |->
             IF d[i].col = col THEN [col |-> col, how |-> how] ELSE d[i]]
    ELSE Append(d, [col |-> col, how |-> how])

DictSetIf(d, col, how) == IF col # None THEN DictSet(d, col, how) ELSE d

RECURSIVE KeepFirstOfOthers(_, _, _, _)
\* for col in working_df.columns: the columns not yet in agg_dict keep "first".
KeepFirstOfOthers(d, cols, mc, j) ==
    IF j > Len(cols) THEN d
    ELSE IF cols[j] # mc /\ ~ \E i \in 1..Len(d) : d[i].col = cols[j]
    THEN KeepFirstOfOthers(DictSet(d, cols[j], "first"), cols, mc, j + 1)
    ELSE KeepFirstOfOthers(d, cols, mc, j + 1)

\* agg_dict as the script builds it.
AggDict(cols, mc, qc, pcol, ac) ==
    KeepFirstOfOthers(
        DictSetIf(DictSetIf(DictSetIf(<< >>, qc, "sum"), pcol, "first"),
                  ac, "sum"),
        cols, mc, 1)

RECURSIVE SumCells(_, _, _)
\* "sum": the sum of the column over the rows `idx` of the group.
SumCells(col, idx, k) ==
    IF k = 0 THEN 0
    ELSE SumCells(col, idx, k - 1) + (IF k \in idx THEN col[k].n ELSE 0)

\* "first": the first value of the group that is not null, NaN when all are.
FirstCell(col, idx) ==
    LET have == {i \in idx : col[i].t # "nan"}
    IN  IF have = {} THEN NaN
        ELSE col[CHOOSE i \in have : \A j \in have : i <= j]

Reduce(how, col, idx) ==
    IF how = "sum" THEN Num(SumCells(col, idx, Len(col)))
    ELSE FirstCell(col, idx)

\* A faulty variant: group keys compared ignoring case.
GroupKeysIgnoringCase(col) ==
    {Upper(col[i].s) : i \in {k \in 1..Len(col) : col[k].t # "nan"}}

\* The group keys: the distinct values of the key column, nulls dropped.
GroupKeys(col) == {col[i].s : i \in {k \in 1..Len(col) : col[k].t # "nan"}}

RECURSIVE SortedStrings(_)
\* The strings of a set in ascending order.
SortedStrings(S) ==
    IF S = {} THEN << >>
    ELSE LET least == CHOOSE s \in S : \A t \in S : ~ StrLess(t, s)
         IN  << least >> \o SortedStrings(S \ {least})

\* working_df.groupby(model_col, as_index=False).agg(agg_dict): one row per
\* key, keys ascending, the key column first and then agg_dict's columns.
GroupBy(d, mc, agg) ==
    LET key == Column(d, mc)
        keys == SortedStrings(GroupKeys(key))
        rowsOf(k) == {i \in 1..Len(key) : key[i].t # "nan" /\ key[i].s = k}
    IN  DataFrame(<< mc >> \o [j \in 1..Len(agg) |-> agg[j].col],
                  [g \in 1..Len(keys) |->
                      << Str(keys[g]) >> \o
                      [j \in 1..Len(agg) |->
                          Reduce(agg[j].how, Column(d, agg[j].col),
                                 rowsOf(keys[g]))]])

\* 6) Helper columns for display.
WithHelperColumns(g, qc, ac) ==
    LET withQty == IF qc # None
                   THEN AddColumn(g, ColTotalQTY, Column(g, qc)) ELSE g
    IN  IF ac # None
        THEN AddColumn(withQty, ColTotalAmount, Column(withQty, ac))
        ELSE withQty

Aggregate ==
    /\ pc = "group"
    /\ grouped' = GroupBy(working_df, model_col,
                          AggDict(working_df.cols, model_col, qty_col,
                                  price_col, amount_col))
    /\ display_df' = WithHelperColumns(grouped', qty_col, amount_col)
    /\ pc' = "filter"
    /\ UNCHANGED << uploaded_file, df, err, model_col, qty_col, price_col,
                    amount_col, min_qty, search_model, sort_by, working_df,
                    metrics, excel >>

(***************************************************************************)
(* 7) Filters, 8) Sorting, 9) Metrics, 10) Excel export                    *)
(***************************************************************************)

\* The rows of d that pass Test, in order.
SelectRows(d, Test(_)) == DataFrame(d.cols, SelectSeq(d.rows, Test))

\* re.search(pat, s, re.IGNORECASE) for a pattern of letters, digits, blanks
\* and ".": str.contains reads its argument as a regular expression, in
\* which "." stands for any character.
RegexSearch(pat, s) ==
    \E o \in 0..(Len(s) - Len(pat)) :
        \A i \in 1..Len(pat) :
            pat[i] = "." \/ UpperChar(pat[i]) = UpperChar(s[o + i])

\* display_df[display_df["Total_QTY"] >= min_qty], when min_qty > 0 and qty_col
FilterMinQty(d, minq, qc) ==
    IF minq > 0 /\ qc # None
    THEN LET j == ColIdx(d, ColTotalQTY)
             Test(r) == r[j].n >= minq
         IN  SelectRows(d, Test)
    ELSE d

\* display_df[display_df[model_col].astype(str).str.contains(search_model,
\* case=False, na=False)], when search_model is not empty
FilterSearch(d, search, mc) ==
    IF search # << >>
    THEN LET j == ColIdx(d, mc)
             Test(r) == RegexSearch(search, r[j].s)
         IN  SelectRows(d, Test)
    ELSE d

Filter ==
    /\ pc = "filter"
    /\ display_df' = FilterSearch(FilterMinQty(display_df, min_qty, qty_col),
                                  search_model, model_col)
    /\ pc' = "sort"
    /\ UNCHANGED << uploaded_file, df, err, model_col, qty_col, price_col,
                    amount_col, min_qty, search_model, sort_by, working_df,
                    grouped, metrics, excel >>

\* The column sort_values is given.
SortColumn(by, mc, qc, ac) ==
    IF by = "Total_QTY" /\ qc # None THEN ColTotalQTY
    ELSE IF by = "Total_Amount" /\ ac # None THEN ColTotalAmount
    ELSE mc

\* A faulty variant: every key sorts ascending.
AlwaysAscending(by, qc, ac) == TRUE

\* The direction sort_values is given.
SortAscending(by, qc, ac) ==
    ~ (\/ by = "Total_QTY" /\ qc # None
       \/ by = "Total_Amount" /\ ac # None)

\* a < b for two cells of one column: numbers by value, text as strings.
CellLess(a, b) == IF a.t = "num" THEN a.n < b.n ELSE StrLess(a.s, b.s)

\* rows are in the order of column j, ascending or descending.
InOrder(rows, j, ascending) ==
    \A i \in 1..(Len(rows) - 1) :
        IF ascending
        THEN ~ CellLess(rows[i + 1][j], rows[i][j])
        ELSE ~ CellLess(rows[i][j], rows[i + 1][j])

\* The outcomes of d.sort_values(col, ascending=...).reset_index(drop=True):
\* the rows in the order of the column.  The default kind, quicksort, is not a
\* stable sort, so rows with equal values may come out in any order.
SortValues(d, col, ascending) ==
    LET n == Len(d.rows)
    IN  {DataFrame(d.cols, [i \in 1..n |-> d.rows[p[i]]]) :
            p \in {q \in Permutations(1..n) :
                      InOrder([i \in 1..n |-> d.rows[q[i]]],
                              ColIdx(d, col), ascending)}}

Sort ==
    /\ pc = "sort"
    /\ display_df' \in
           SortValues(display_df,
                      SortColumn(sort_by, model_col, qty_col, amount_col),
                      SortAscending(sort_by, qty_col, amount_col))
    /\ pc' = "render"
    /\ UNCHANGED << uploaded_file, df, err, model_col, qty_col, price_col,
                    amount_col, min_qty, search_model, sort_by, working_df,
                    grouped, metrics, excel >>

RECURSIVE SumColumn(_, _)
\* Series.sum() over the first k cells of a numeric column.
SumColumn(col, k) == IF k = 0 THEN 0 ELSE SumColumn(col, k - 1) + col[k].n

\* 9) Metrics: Total Models, and Total Quantity and Total Amount when their
\* columns were detected (<< >> when the metric is not shown).
Render ==
    /\ pc = "render"
    /\ metrics' =
           [models |-> << Len(display_df.rows) >>,
            quantity |->
                IF qty_col # None
                THEN << SumColumn(Column(display_df, ColTotalQTY),
                                  Len(display_df.rows)) >>
                ELSE << >>,
            amount |->
                IF amount_col # None
                THEN << SumColumn(Column(display_df, ColTotalAmount),
                                  Len(display_df.rows)) >>
                ELSE << >>]
    /\ pc' = "export"
    /\ UNCHANGED << uploaded_file, df, err, model_col, qty_col, price_col,
                    amount_col, min_qty, search_model, sort_by, working_df,
                    grouped, display_df, excel >>

\* 10) Excel export: display_df written to the sheet "Merged Data".
Export ==
    /\ pc = "export"
    /\ excel' = [sheet |-> "Merged Data", table |-> display_df]
    /\ pc' = "done"
    /\ UNCHANGED << uploaded_file, df, err, model_col, qty_col, price_col,
                    amount_col, min_qty, search_model, sort_by, working_df,
                    grouped, display_df, metrics >>

Next ==
    \/ Upload
    \/ ReadExcel
    \/ AutoDetect
    \/ Sidebar
    \/ Clean
    \/ Aggregate
    \/ Filter
    \/ Sort
    \/ Render
    \/ Export

\* One run of the script on an uploaded file.
Spec == Init /\ [][Next]_vars

\* The column detection on its own, over every header of up to MaxCols columns.
DetectInit ==
    /\ pc = "classify"
    /\ \E h \in Headers :
          /\ uploaded_file = [ok |-> TRUE, cols |-> h, rows |-> << >>]
          /\ df = DataFrame(h, << >>)
    /\ err = ""
    /\ model_col = None /\ qty_col = None
    /\ price_col = None /\ amount_col = None
    /\ min_qty = 0 /\ search_model = << >> /\ sort_by = "MODEL"
    /\ working_df = NoDF /\ grouped = NoDF /\ display_df = NoDF
    /\ metrics = NoMetrics
    /\ excel = NoExcel

DetectNext == AutoDetect

DetectSpec == DetectInit /\ [][DetectNext]_vars

(***************************************************************************)
(* Properties                                                              *)
(***************************************************************************)

AfterClean == pc \in {"group", "filter", "sort", "render", "export", "done"}
AfterAggregate == pc \in {"filter", "sort", "render", "export", "done"}
AfterFilter == pc \in {"sort", "render", "export", "done"}
AfterSort == pc \in {"render", "export", "done"}

\* The MODEL column after the clean step, and the rows whose MODEL is set.
CleanIds == Column(working_df, model_col)
RowsWithId == {i \in 1..Len(working_df.rows) : CleanIds[i].t # "nan"}

RECURSIVE SumOver(_, _)
\* The sum of f over a finite set of row numbers.
SumOver(f, S) ==
    IF S = {} THEN 0
    ELSE LET i == CHOOSE x \in S : TRUE IN f[i] + SumOver(f, S \ {i})

\* The numbers of a numeric column.
Values(d, col) == [i \in 1..Len(d.rows) |-> Column(d, col)[i].n]

\* C1: with the quantity column detected and no filter set, the Total_QTY
\* values of the result add up to the cleaned quantities of the rows whose
\* MODEL is set after the forward-fill.
C1_QuantityConserved ==
    (AfterAggregate /\ qty_col # None /\ min_qty = 0 /\ search_model = << >>)
    => SumOver(Values(display_df, ColTotalQTY), 1..Len(display_df.rows))
       = SumOver(Values(working_df, qty_col), RowsWithId)

\* The groups' identifiers.
GroupIds == Column(grouped, model_col)

ReadIds ==
    [i \in 1..Len(df.rows) |->
        ReplaceMissing(Strip(AsStr(Column(df, model_col)[i])))]

\* The rows (M1, 5, 100), (missing, 3, 60), (M2, 2, 40) in the sheet whose
\* columns are Model, Qty, Price, Amount and Desc.
ScenarioSheet ==
    /\ df.cols = << ColModel, ColQty, ColPrice, ColAmount, ColDesc >>
    /\ Len(df.rows) = 3
    /\ Column(df, ColModel) = << Str(<< "M", "1" >>), NaN, Str(<< "M", "2" >>) >>
    /\ Column(df, ColQty) = << Num(5), Num(3), Num(2) >>
    /\ Column(df, ColAmount) = << Num(100), Num(60), Num(40) >>

\* C3: after the clean step a MODEL cell that was set is its stripped text; a
\* missing one holds the value of the nearest earlier row that was set, and
\* stays missing when no earlier row was set.  The rows (M1, 5, 100),
\* (missing, 3, 60), (M2, 2, 40) group to M1 with 8 and 160 and M2 with 2 and 40.
C3_ForwardFill ==
    /\ AfterClean =>
           \A i \in 1..Len(df.rows) :
               LET before == {j \in 1..(i - 1) : ReadIds[j].t # "nan"}
               IN  /\ ReadIds[i].t # "nan" =>
                          CleanIds[i] = Str(Strip(Column(df, model_col)[i].s))
                   /\ (ReadIds[i].t = "nan" /\ before # {}) =>
                          CleanIds[i] =
                              ReadIds[CHOOSE j \in before :
                                          \A k \in before : k <= j]
                   /\ (ReadIds[i].t = "nan" /\ before = {}) =>
                          CleanIds[i] = NaN
    /\ (AfterAggregate /\ ScenarioSheet) =>
           /\ Column(grouped, ColModel) = << Str(<< "M", "1" >>), Str(<< "M", "2" >>) >>
           /\ Column(grouped, ColQty) = << Num(8), Num(2) >>
           /\ Column(grouped, ColAmount) = << Num(160), Num(40) >>

\* C3's case: the three rows of the example, grouped.
C3_Witness == pc = "done" /\ ScenarioSheet

\* No column name contains MODEL, STYLE, ITEM or CODE.
NoIdentifierColumn ==
    \A j \in 1..Len(df.cols) :
        \A k \in 1..Len(MODEL_KEYWORDS) :
            ~ Contains(Upper(df.cols[j]), MODEL_KEYWORDS[k])

NothingProduced ==
    /\ working_df = NoDF /\ grouped = NoDF /\ display_df = NoDF
    /\ metrics = NoMetrics /\ excel = NoExcel

\* C4: a sheet without identifier column, and a file that cannot be read,
\* end the run with an error shown; after an error the run is stopped for
\* good and has built no working table, no result, no metric and no workbook.
C4_FatalErrorsHalt ==
    /\ (pc \notin {"upload", "read", "classify"}
        /\ uploaded_file.ok /\ NoIdentifierColumn)
       => (pc = "stopped" /\ err = "MODEL column missing")
    /\ (pc \notin {"upload", "read"} /\ ~ uploaded_file.ok)
       => (pc = "stopped" /\ err = "File error")
    /\ err # "" => pc = "stopped"
    /\ pc = "stopped" => (err # "" /\ NothingProduced)

\* C4's case: a sheet with rows and no identifier column, stopped.
C4_Witness ==
    /\ pc = "stopped" /\ err = "MODEL column missing"
    /\ Len(df.rows) > 0 /\ NoIdentifierColumn

\* The columns the result has beyond those of the sheet and the two totals.
DerivedColumns ==
    {j \in 1..Len(display_df.cols) :
        /\ \A k \in 1..Len(df.cols) : df.cols[k] # display_df.cols[j]
        /\ display_df.cols[j] \notin {ColTotalQTY, ColTotalAmount}}

\* C5: every row of the result has a unit price: the summed amount over the
\* summed quantity to two decimals, and 0 when the summed quantity is 0.
C5_UnitPrice ==
    (AfterAggregate /\ qty_col # None /\ amount_col # None
     /\ Len(display_df.rows) > 0) =>
        \E j \in DerivedColumns :
            \A r \in 1..Len(display_df.rows) :
                LET q == Values(display_df, ColTotalQTY)[r]
                    a == Values(display_df, ColTotalAmount)[r]
                    u == display_df.rows[r][j].n
                    d == 200 * (a - u * q)
                IN  IF q = 0 THEN u = 0 ELSE d <= q /\ -d <= q

\* The (keyword, column) pairs in which the upper-cased column name contains
\* the keyword.
Hits(cols, keywords) ==
    {h \in (1..Len(keywords)) \X (1..Len(cols)) :
        Contains(Upper(cols[h[2]]), Upper(keywords[h[1]]))}

\* The column of the earliest keyword that any column contains and, among
\* the columns containing that keyword, the leftmost; None without any hit.
ByKeywordThenPosition(cols, keywords) ==
    LET hits == Hits(cols, keywords)
    IN  IF hits = {} THEN None
        ELSE LET k == CHOOSE x \in {h[1] : h \in hits} :
                          \A y \in {h[1] : h \in hits} : x <= y
                 j == CHOOSE x \in {h[2] : h \in {e \in hits : e[1] = k}} :
                          \A y \in {h[2] : h \in {e \in hits : e[1] = k}} :
                              x <= y
             IN  cols[j]

\* C6: each role's column is chosen by keyword order first and column
\* position second, is returned under the name the sheet gives it, and is
\* None exactly when no column contains a keyword of the role; the roles are
\* resolved one by one, whatever the others got.
C6_KeywordThenPosition ==
    pc \in {"sidebar", "stopped"} =>
        /\ model_col = ByKeywordThenPosition(df.cols, MODEL_KEYWORDS)
        /\ qty_col = ByKeywordThenPosition(df.cols, QTY_KEYWORDS)
        /\ price_col = ByKeywordThenPosition(df.cols, PRICE_KEYWORDS)
        /\ amount_col = ByKeywordThenPosition(df.cols, AMOUNT_KEYWORDS)
        /\ (model_col = None) = (Hits(df.cols, MODEL_KEYWORDS) = {})
        /\ (qty_col = None) = (Hits(df.cols, QTY_KEYWORDS) = {})
        /\ (price_col = None) = (Hits(df.cols, PRICE_KEYWORDS) = {})
        /\ (amount_col = None) = (Hits(df.cols, AMOUNT_KEYWORDS) = {})

\* C6's case: MODEL beats the STYLE column to its left, and one column is
\* both the quantity and the amount column.
C6_Witness ==
    /\ pc = "sidebar"
    /\ df.cols = << ColStyleCode, ColModel, ColTotalQty >>
    /\ model_col = ColModel
    /\ qty_col = ColTotalQty /\ amount_col = ColTotalQty
    /\ price_col = None

\* The identifiers of the result's rows.
ResultIds == Column(display_df, model_col)

\* C7: the filtered result holds exactly the groups whose summed quantity is
\* not below min_qty (when there is a quantity column) and whose identifier
\* contains search_model as a literal substring, case ignored; an empty
\* result shows 0 models and 0 quantity.
C7_FilterExact ==
    /\ AfterFilter =>
           {ResultIds[r].s : r \in 1..Len(display_df.rows)}
           = {GroupIds[g].s :
                g \in {x \in 1..Len(grouped.rows) :
                         /\ qty_col # None =>
                                Values(grouped, qty_col)[x] >= min_qty
                         /\ Contains(Upper(GroupIds[x].s),
                                     Upper(search_model))}}
    /\ (pc = "done" /\ Len(display_df.rows) = 0) =>
           /\ metrics.models = << 0 >>
           /\ qty_col # None => metrics.quantity = << 0 >>

\* The first row of the sheet that carries identifier id.
FirstAppearance(id) ==
    CHOOSE i \in RowsWithId :
        /\ CleanIds[i].s = id
        /\ \A j \in RowsWithId : CleanIds[j].s = id => i <= j

\* The values of the selected sort key, row by row (identifiers aside).
SelectedKey ==
    IF sort_by = "Total_QTY" THEN Values(display_df, ColTotalQTY)
    ELSE Values(display_df, ColTotalAmount)

\* The table the filters leave, computed from the grouped table.
Filtered ==
    FilterSearch(FilterMinQty(WithHelperColumns(grouped, qty_col, amount_col),
                              min_qty, qty_col),
                 search_model, model_col)

\* C8 as amended: the result holds the filtered rows, by identifier in
\* ascending order, by total quantity or total amount in descending order.
C8_SortedBySelectedKey ==
    AfterSort =>
        /\ display_df.cols = Filtered.cols
        /\ Len(display_df.rows) = Len(Filtered.rows)
        /\ {display_df.rows[r] : r \in 1..Len(display_df.rows)}
           = {Filtered.rows[r] : r \in 1..Len(Filtered.rows)}
        /\ \A i, k \in 1..Len(display_df.rows) :
               i < k =>
                   IF sort_by = "MODEL"
                   THEN StrLess(ResultIds[i].s, ResultIds[k].s)
                   ELSE SelectedKey[i] >= SelectedKey[k]

\* C8 as stated: moreover rows with equal values of the selected key come in
\* the order in which their identifiers first appear in the sheet.
C8_StableTieBreak ==
    /\ C8_SortedBySelectedKey
    /\ (AfterSort /\ sort_by # "MODEL") =>
           \A i, k \in 1..Len(display_df.rows) :
               (i < k /\ SelectedKey[i] = SelectedKey[k]) =>
                   FirstAppearance(ResultIds[i].s)
                   < FirstAppearance(ResultIds[k].s)

\* C8's case: sorted by total quantity, two groups tied ahead of a smaller
\* one, the tied pair not in the order of first appearance.
C8_Witness ==
    /\ pc = "done" /\ sort_by = "Total_QTY"
    /\ Len(display_df.rows) = 3
    /\ SelectedKey[1] = SelectedKey[2] /\ SelectedKey[2] > SelectedKey[3]
    /\ FirstAppearance(ResultIds[2].s) < FirstAppearance(ResultIds[1].s)

\* Missing as the specification has it: empty, or nan / none in any case.
MissingIgnoringCase(s) ==
    \/ s = << >>
    \/ Upper(s) = << "N", "A", "N" >>
    \/ Upper(s) = << "N", "O", "N", "E" >>

\* C9: a MODEL cell is repaired by forward-fill exactly when its stripped
\* text is empty or is nan or none in any letter case; any other cell keeps
\* its stripped text.
C9_MissingIgnoringCase ==
    AfterClean =>
        \A i \in 1..Len(df.rows) :
            LET s == Strip(AsStr(Column(df, model_col)[i]))
            IN  IF MissingIgnoringCase(s)
                THEN CleanIds[i] = (IF i = 1 THEN NaN ELSE CleanIds[i - 1])
                ELSE CleanIds[i] = Str(s)

\* The first row of group g in the sheet's row order.
FirstRowOf(g) == FirstAppearance(GroupIds[g].s)

\* C10: in every group the price, and every column that is neither the
\* identifier nor summed, holds the cell of the group's first row, empty or
\* not.
C10_FirstRowWins ==
    AfterAggregate =>
        \A g \in 1..Len(grouped.rows) :
            \A j \in 1..Len(grouped.cols) :
                LET c == grouped.cols[j]
                IN  (c # model_col /\ (c = price_col
                                         \/ c \notin {qty_col, amount_col}))
                    => grouped.rows[g][j]
                       = Column(working_df, c)[FirstRowOf(g)]

====
